---- MODULE Spec2Model ----
(***************************************************************************)
(* Healthcare test-automation framework: the database test-data lifecycle  *)
(* helper (libraries/DatabaseHealthcareLibrary.py), the security helper    *)
(* (utils/helpers.py, class SecurityHelper), the API keyword library       *)
(* (libraries/APIHealthcareLibrary.py) and the test runner (run_tests.py). *)
(*                                                                         *)
(* Spec         the database helper: connect, disconnect, create, cleanup, *)
(*              with rows of the application in the child tables           *)
(* SpecQueries  the database helper: all its operations, the queries       *)
(*              included, on the patients the test created                 *)
(* SpecIds      the database helper: patients with generated ids, and the  *)
(*              wall clock                                                 *)
(* SpecConnections the database helper: connect and disconnect under two  *)
(*              aliases                                                    *)
(* SpecSecurity the security helper: one SecurityHelper instance and the   *)
(*              calls made on it                                           *)
(* SpecApi      the API library: one instance and the calls made on it     *)
(* SpecRunner   one run of run_tests.py                                    *)
(* SpecConfig   the configuration manager: one load_config call            *)
(* SpecTestData the test-data manager: saves and loads in one directory    *)
(***************************************************************************)
EXTENDS Integers, Sequences, FiniteSets, TLC

VARIABLES
    ROBOT_AVAILABLE,     \* module flag: robot framework importable
    PSYCOPG2_AVAILABLE,  \* module flag: psycopg2 importable
    PYMYSQL_AVAILABLE,   \* module flag: pymysql importable
    connections,         \* self.connections: alias -> [connection, type]
    current_connection,  \* self.current_connection: an alias or None
    opened,              \* driver connections opened and not yet closed
    tables,              \* the test database: table -> patient_ids of its rows
    cleanup,             \* the cleanup_test_data call in progress, or None
    issued,              \* statements the current (or last) call sent, in order
    outcome,             \* how the last database-helper call ended
    cipher,              \* SecurityHelper.cipher: the instance key
    last,                \* the last SecurityHelper call: inputs and result
    api,                 \* the APIHealthcareLibrary instance and its last call
    run,                 \* the run_tests.py process
    clock,               \* the wall clock, in half seconds
    created,             \* the ids create_test_patient generated and returned
    config,              \* ConfigManager.config: <<key -> value>>, <<>> for None
    files,               \* TestDataManager's data directory: <<name, ext>> -> content
    saved                \* the data of the latest save_test_data under each name

dbvars == <<ROBOT_AVAILABLE, PSYCOPG2_AVAILABLE, PYMYSQL_AVAILABLE, connections,
            current_connection, opened, tables, cleanup, issued, outcome>>
secvars == <<cipher, last>>
othervars == <<clock, created, config, files, saved>>
vars == <<ROBOT_AVAILABLE, PSYCOPG2_AVAILABLE, PYMYSQL_AVAILABLE, connections,
          current_connection, opened, tables, cleanup, issued, outcome,
          cipher, last, api, run, clock, created, config, files, saved>>

None == "None"

\* the decimal digits, in order
DigitChars == <<"0", "1", "2", "3", "4", "5", "6", "7", "8", "9">>

\* ConfigManager.__init__: self.config = {}
NoConfig == <<[k \in {} |-> None]>>

\* the names test data is saved under
DataNames == {"patients"}

\* the extensions load_test_data tries, in order
Extensions == <<"json", "csv", "yaml", "yml">>

\* TestDataManager.__init__ on a new directory: no file, nothing saved
NoFiles == [f \in DataNames \X {Extensions[i] : i \in 1..4} |-> <<>>]
NoSaves == [name \in DataNames |-> <<>>]

\* no SecurityHelper call has been made yet
NoCall == [op |-> "none"]

\* APIHealthcareLibrary.__init__: a new session, no base URL, no token, no response
\* (sent: the Authorization header of every request sent since the last clear;
\* cleared: the session was cleared and no authentication succeeded since;
\* old_token: the token held when the session was last cleared)
ApiInit ==
    [base_url |-> "", auth_token |-> "", last_response |-> None,
     session |-> [id |-> 1, Authorization |-> None, json_headers |-> FALSE],
     sent |-> {}, cleared |-> FALSE, old_token |-> "",
     outcome |-> [op |-> "none", status |-> "ok", result |-> <<>>]]

\* run_tests.py has not been started
NoRun == [pc |-> "start"]

(***************************************************************************)
(* Bounds of the model                                                     *)
(***************************************************************************)
MaxConnects == 2    \* driver connections opened in one run
MaxChildRows == 2   \* patient ids with rows in one child table

Aliases == {"default", "reporting"}
PatientIds == {"PAT_1", "PAT_2"}
DbTypes == {"sqlite", "postgresql", "mysql"}

(***************************************************************************)
(* cleanup_test_data: the cleanup order, child tables first                *)
(***************************************************************************)
\* mutant: the parent table is cleaned first
cleanup_tables_parent_first ==
    <<"patients", "prescriptions", "medical_records", "appointments",
      "patient_allergies", "patient_medications">>

cleanup_tables ==
    <<"prescriptions", "medical_records", "appointments",
      "patient_allergies", "patient_medications", "patients">>

ChildTables == {"prescriptions", "medical_records", "appointments",
                "patient_allergies", "patient_medications"}
Tables == ChildTables \cup {"patients"}

\* self.builtin: BuiltIn() when robot is importable, else None
builtin == IF ROBOT_AVAILABLE THEN "BuiltIn" ELSE None

\* the except tuples "(psycopg2.Error if PSYCOPG2_AVAILABLE else Exception,
\* pymysql.Error if PYMYSQL_AVAILABLE else Exception, ...)" hold Exception,
\* and so catch every error, exactly when a driver is missing
CatchesException == ~PSYCOPG2_AVAILABLE \/ ~PYMYSQL_AVAILABLE

\* _validate_connection: "ok", or the error it reports for a missing alias
ValidateConnection(alias) ==
    IF alias \notin DOMAIN connections
    THEN IF builtin # None THEN "AssertionError" ELSE "DatabaseConnectionError"
    ELSE "ok"

\* mutant: the error is only logged and execute_healthcare_query returns []
HandleQueryError_returns == "ok"

\* _handle_query_error: builtin.fail under a runner, ValidationError otherwise
HandleQueryError == IF builtin # None THEN "AssertionError" ELSE "ValidationError"

\* _get_placeholder: the placeholder the helper writes for an engine
GetPlaceholder(db_type) == IF db_type = "sqlite" THEN "?" ELSE "%s"

\* the paramstyle the driver of an engine accepts (sqlite3: qmark; psycopg2 and
\* pymysql: format)
DriverParamStyle(db_type) == IF db_type = "sqlite" THEN "?" ELSE "%s"

\* mutant: the delete binds only one of the patient ids
DeleteStatement_first_id_only(table, patient_ids, db_type) ==
    [kind |-> "DELETE", table |-> table,
     ids |-> IF patient_ids = {} THEN {}
             ELSE {CHOOSE p \in patient_ids : TRUE},
     ph |-> IF db_type = "sqlite" THEN "?" ELSE "%s"]

\* mutant: the DELETE has no WHERE clause
DeleteStatement_every_row(table, patient_ids, db_type) ==
    [kind |-> "DELETE", table |-> table, ids |-> PatientIds,
     ph |-> GetPlaceholder(db_type)]

\* _delete_from_table: DELETE FROM table WHERE patient_id IN (placeholders)
DeleteStatement(table, patient_ids, db_type) ==
    [kind |-> "DELETE", table |-> table, ids |-> patient_ids,
     ph |-> GetPlaceholder(db_type)]

\* _count_remaining: SELECT COUNT(*) FROM table WHERE patient_id IN (placeholders)
CountStatement(table, patient_ids, db_type) ==
    [kind |-> "COUNT", table |-> table, ids |-> patient_ids,
     ph |-> GetPlaceholder(db_type)]

\* create_test_patient: INSERT INTO patients (columns) VALUES (placeholders)
InsertStatement(patient_id, db_type) ==
    [kind |-> "INSERT", table |-> "patients", ids |-> {patient_id},
     ph |-> IF db_type = "sqlite" THEN "?" ELSE "%s"]

\* the database applying a statement that it accepted
ApplyStatement(stmt, tbls) ==
    CASE stmt.kind = "DELETE" ->
            [tbls EXCEPT ![stmt.table] = tbls[stmt.table] \ stmt.ids]
      [] stmt.kind = "INSERT" ->
            [tbls EXCEPT ![stmt.table] = tbls[stmt.table] \cup stmt.ids]
      [] OTHER -> tbls

\* the rows a statement returns: the count of a COUNT query
StatementRows(stmt, tbls) ==
    IF stmt.kind = "COUNT"
    THEN <<[count |-> Cardinality(tbls[stmt.table] \cap stmt.ids)]>>
    ELSE <<>>

\* mutant: the database accepts every statement
Rejects_nothing(stmt, tbls) == FALSE

\* whether the database rejects a statement: a duplicate primary key
Rejects(stmt, tbls) ==
    stmt.kind = "INSERT" /\ stmt.ids \cap tbls[stmt.table] # {}

\* execute_healthcare_query(query, parameters, fetch, alias); dbOk: whether the
\* database executes the statement without an error of its own.
\* status: "ok" or the error raised; sent: the statement reached cursor.execute
ExecuteHealthcareQuery(alias, stmt, dbOk) ==
    IF ValidateConnection(alias) # "ok"
    THEN [status |-> ValidateConnection(alias), sent |-> FALSE,
          tables |-> tables, rows |-> <<>>]
    ELSE IF builtin = None
    THEN \* self.builtin.log(...) inside the try raises AttributeError
         [status |-> IF CatchesException THEN HandleQueryError
                     ELSE "AttributeError",
          sent |-> FALSE, tables |-> tables, rows |-> <<>>]
    ELSE IF \/ stmt.ph # DriverParamStyle(connections[alias].type)
            \/ ~dbOk
            \/ Rejects(stmt, tables)
    THEN [status |-> HandleQueryError, sent |-> TRUE,
          tables |-> tables, rows |-> <<>>]
    ELSE [status |-> "ok", sent |-> TRUE,
          tables |-> ApplyStatement(stmt, tables),
          rows |-> StatementRows(stmt, tables)]

NoOutcome == [op |-> "none", status |-> "ok", patient_ids |-> {}, removed |-> {}]

Outcome(op, status, ids, removed) ==
    [op |-> op, status |-> status, patient_ids |-> ids, removed |-> removed]

(***************************************************************************)
(* The database helper's operations                                        *)
(***************************************************************************)
\* no cleanup_test_data call is in progress
NoCleanup == [patient_ids |-> {}, alias |-> None, db_type |-> None,
              table |-> 0, step |-> "idle", removed |-> {}]

Idle == cleanup.step = "idle"

\* a connection object not in use: the one the driver returns next
FreshConnection == CHOOSE c \in 1..MaxConnects : c \notin opened

\* whether the driver of an engine is importable
DriverAvailable(db_type) ==
    CASE db_type = "postgresql" -> PSYCOPG2_AVAILABLE
      [] db_type = "mysql" -> PYMYSQL_AVAILABLE
      [] OTHER -> TRUE

\* how a failed connection attempt or configuration is reported
ConnectFailure == IF builtin # None THEN "AssertionError"
                  ELSE "DatabaseConnectionError"

\* connect_to_healthcare_database(config, alias); db_type: config['db_type'];
\* reachable: whether the driver's connect call succeeds
Connect(alias, db_type, reachable) ==
    /\ Idle
    /\ issued' = <<>>
    /\ UNCHANGED <<ROBOT_AVAILABLE, PSYCOPG2_AVAILABLE, PYMYSQL_AVAILABLE,
                   tables, cleanup, cipher, last, api, run, othervars>>
    /\ IF db_type \notin DbTypes \/ ~DriverAvailable(db_type) \/ ~reachable
       THEN \* ValueError, DatabaseConnectionError or the driver's error
            /\ outcome' = Outcome("connect", ConnectFailure, {}, {})
            /\ UNCHANGED <<connections, current_connection, opened>>
       ELSE /\ \E c \in 1..MaxConnects : c \notin opened
            /\ connections' =
                  [a \in DOMAIN connections \cup {alias} |->
                      IF a = alias
                      THEN [connection |-> FreshConnection, type |-> db_type]
                      ELSE connections[a]]
            /\ current_connection' = alias
            /\ opened' = opened \cup {FreshConnection}
            /\ outcome' =
                  Outcome("connect",
                          \* self.builtin.log(...) after the registration
                          IF builtin # None THEN "ok"
                          ELSE IF CatchesException THEN "DatabaseConnectionError"
                          ELSE "AttributeError",
                          {}, {})

\* mutant: the current alias survives the disconnection
CurrentAfterDisconnect_kept(alias) == current_connection

\* if self.current_connection == alias: self.current_connection = None
CurrentAfterDisconnect(alias) ==
    IF current_connection = alias THEN None ELSE current_connection

\* disconnect_from_healthcare_database(alias)
Disconnect(alias) ==
    /\ Idle
    /\ issued' = <<>>
    /\ UNCHANGED <<ROBOT_AVAILABLE, PSYCOPG2_AVAILABLE, PYMYSQL_AVAILABLE,
                   tables, cleanup, cipher, last, api, run, othervars>>
    /\ IF alias \in DOMAIN connections
       THEN /\ opened' = opened \ {connections[alias].connection}
            /\ connections' = [a \in DOMAIN connections \ {alias} |-> connections[a]]
            /\ current_connection' = CurrentAfterDisconnect(alias)
       ELSE UNCHANGED <<connections, current_connection, opened>>
    /\ outcome' =
          Outcome("disconnect",
                  \* self.builtin.log(...) in both branches
                  IF builtin # None \/ CatchesException THEN "ok"
                  ELSE "AttributeError",
                  {}, {})

\* mutant: an error inside the try is swallowed and the call returns
CreateFailure_swallowed(err) == "ok"

\* how create_test_patient reports an error raised inside its try
CreateFailure(err) ==
    IF CatchesException
    THEN IF builtin # None THEN "AssertionError" ELSE "TestDataError"
    ELSE err

\* the wall clock advances MaxClock half seconds at most
MaxClock == 3

\* the clock is read in half seconds; strftime's %S counts whole seconds
TicksPerSecond == 2

\* datetime.now().strftime("%Y%m%d%H%M%S") in the first minute of 2026-01-01
Strftime(t) ==
    LET second == t \div TicksPerSecond
    IN  "202601010000" \o DigitChars[(second \div 10) + 1]
                       \o DigitChars[(second % 10) + 1]

\* f"TEST_{timestamp}"
GeneratedId(t) == "TEST_" \o Strftime(t)

\* at most this many calls let the helper generate the id
MaxCreated == 2

\* time passes
Tick ==
    /\ clock < MaxClock
    /\ clock' = clock + 1
    /\ UNCHANGED <<dbvars, secvars, api, run, created, config, files, saved>>

\* create_test_patient(patient_data, alias); patient_id: patient_data['patient_id'],
\* None when patient_data has no such key and the helper generates the id
CreateTestPatient(patient_id, alias, dbOk) ==
    /\ Idle
    /\ patient_id = None => Len(created) < MaxCreated
    /\ UNCHANGED <<ROBOT_AVAILABLE, PSYCOPG2_AVAILABLE, PYMYSQL_AVAILABLE,
                   connections, current_connection, opened, cleanup,
                   cipher, last, api, run, clock, config, files, saved>>
    /\ IF ValidateConnection(alias) # "ok"
       THEN /\ outcome' = Outcome("create_test_patient",
                                  CreateFailure(ValidateConnection(alias)), {}, {})
            /\ issued' = <<>>
            /\ UNCHANGED <<tables, created>>
       ELSE LET id == IF patient_id = None THEN GeneratedId(clock) ELSE patient_id
                stmt == InsertStatement(id, connections[alias].type)
                r == ExecuteHealthcareQuery(alias, stmt, dbOk)
            IN  /\ issued' = IF r.sent THEN <<stmt>> ELSE <<>>
                /\ tables' = r.tables
                /\ created' = IF patient_id = None /\ r.status = "ok"
                              THEN Append(created, id) ELSE created
                /\ outcome' =
                      IF r.status = "ok"
                      THEN Outcome("create_test_patient", "ok", {id}, {})
                      ELSE Outcome("create_test_patient",
                                   CreateFailure(r.status), {}, {})

\* the application under test stores a row for an existing patient in a child
\* table (the foreign key to patients holds)
AppInsertChild(table, patient_id) ==
    /\ Idle
    /\ table \in ChildTables
    /\ patient_id \in tables["patients"]
    /\ patient_id \notin tables[table]
    /\ Cardinality({<<t, p>> \in ChildTables \X PatientIds : p \in tables[t]})
          < MaxChildRows
    /\ tables' = [tables EXCEPT ![table] = tables[table] \cup {patient_id}]
    /\ issued' = <<>>
    /\ outcome' = NoOutcome
    /\ UNCHANGED <<ROBOT_AVAILABLE, PSYCOPG2_AVAILABLE, PYMYSQL_AVAILABLE,
                   connections, current_connection, opened, cleanup,
                   cipher, last, api, run, othervars>>

\* how cleanup_test_data reports an error raised inside its try
CleanupFailure(err) ==
    IF CatchesException
    THEN IF ROBOT_AVAILABLE THEN "AssertionError" ELSE "TestDataError"
    ELSE err

\* cleanup_test_data(patient_ids, alias): up to the start of the loop
CleanupBegin(patient_ids, alias) ==
    /\ Idle
    /\ issued' = <<>>
    /\ UNCHANGED <<ROBOT_AVAILABLE, PSYCOPG2_AVAILABLE, PYMYSQL_AVAILABLE,
                   connections, current_connection, opened, tables,
                   cipher, last, api, run, othervars>>
    /\ IF patient_ids = {}
       THEN /\ outcome' = Outcome("cleanup_test_data", "ok", {}, {})
            /\ UNCHANGED cleanup
       ELSE IF ValidateConnection(alias) # "ok"
       THEN /\ outcome' = Outcome("cleanup_test_data",
                                  ValidateConnection(alias), patient_ids, {})
            /\ UNCHANGED cleanup
       ELSE /\ cleanup' = [patient_ids |-> patient_ids, alias |-> alias,
                           db_type |-> connections[alias].type,
                           table |-> 1, step |-> "delete", removed |-> {}]
            /\ outcome' = Outcome("cleanup_test_data", "running", patient_ids, {})

\* cleanup_test_data: _delete_from_table for the table the loop is at
CleanupDelete(dbOk) ==
    /\ ~Idle
    /\ cleanup.step = "delete"
    /\ UNCHANGED <<ROBOT_AVAILABLE, PSYCOPG2_AVAILABLE, PYMYSQL_AVAILABLE,
                   connections, current_connection, opened, cipher, last, api, run, othervars>>
    /\ LET table == cleanup_tables[cleanup.table]
           stmt == DeleteStatement(table, cleanup.patient_ids, cleanup.db_type)
           r == ExecuteHealthcareQuery(cleanup.alias, stmt, dbOk)
           removed == IF table = "patients"
                      THEN cleanup.removed \cup (tables[table] \ r.tables[table])
                      ELSE cleanup.removed
       IN  /\ issued' = IF r.sent THEN Append(issued, stmt) ELSE issued
           /\ tables' = r.tables
           /\ IF r.status = "ok"
              THEN /\ cleanup' = [cleanup EXCEPT !.step = "count",
                                                 !.removed = removed]
                   /\ UNCHANGED outcome
              ELSE /\ cleanup' = NoCleanup
                   /\ outcome' = Outcome("cleanup_test_data",
                                         CleanupFailure(r.status),
                                         cleanup.patient_ids, removed)

\* cleanup_test_data: _count_remaining for the table the loop is at, then the
\* next table or the end of the loop
CleanupCount(dbOk) ==
    /\ ~Idle
    /\ cleanup.step = "count"
    /\ UNCHANGED <<ROBOT_AVAILABLE, PSYCOPG2_AVAILABLE, PYMYSQL_AVAILABLE,
                   connections, current_connection, opened, cipher, last, api, run, othervars>>
    /\ LET table == cleanup_tables[cleanup.table]
           stmt == CountStatement(table, cleanup.patient_ids, cleanup.db_type)
           r == ExecuteHealthcareQuery(cleanup.alias, stmt, dbOk)
       IN  /\ issued' = IF r.sent THEN Append(issued, stmt) ELSE issued
           /\ tables' = r.tables
           /\ IF r.status # "ok"
              THEN /\ cleanup' = NoCleanup
                   /\ outcome' = Outcome("cleanup_test_data",
                                         CleanupFailure(r.status),
                                         cleanup.patient_ids, cleanup.removed)
              ELSE IF cleanup.table < Len(cleanup_tables)
              THEN /\ cleanup' = [cleanup EXCEPT !.table = cleanup.table + 1,
                                                 !.step = "delete"]
                   /\ UNCHANGED outcome
              ELSE /\ cleanup' = NoCleanup
                   /\ outcome' = Outcome("cleanup_test_data", "ok",
                                         cleanup.patient_ids, cleanup.removed)

\* execute_healthcare_query called by a test with a statement of its own:
\* SELECT COUNT(*) FROM patients WHERE patient_id = <placeholder>
QueryStatement(patient_id, ph) ==
    [kind |-> "COUNT", table |-> "patients", ids |-> {patient_id}, ph |-> ph]

ExecuteQuery(patient_id, ph, alias, dbOk) ==
    /\ Idle
    /\ UNCHANGED <<ROBOT_AVAILABLE, PSYCOPG2_AVAILABLE, PYMYSQL_AVAILABLE,
                   connections, current_connection, opened, cleanup,
                   cipher, last, api, run, othervars>>
    /\ LET stmt == QueryStatement(patient_id, ph)
           r == ExecuteHealthcareQuery(alias, stmt, dbOk)
       IN  /\ issued' = IF r.sent THEN <<stmt>> ELSE <<>>
           /\ tables' = r.tables
           /\ outcome' = Outcome("execute_healthcare_query", r.status,
                                 {patient_id}, {})

\* validate_patient_data_integrity: its five queries, each written with %s
ValidateQueries(patient_id) ==
    <<[kind |-> "COUNT", table |-> "patients", ids |-> {patient_id}, ph |-> "%s"],
      [kind |-> "SELECT", table |-> "patients", ids |-> {patient_id}, ph |-> "%s"],
      [kind |-> "COUNT", table |-> "appointments", ids |-> {patient_id}, ph |-> "%s"],
      [kind |-> "COUNT", table |-> "medical_records", ids |-> {patient_id}, ph |-> "%s"],
      [kind |-> "COUNT", table |-> "prescriptions", ids |-> {patient_id}, ph |-> "%s"]>>

\* how validate_patient_data_integrity ends on an error raised inside its try:
\* both handlers call self.builtin.fail
ValidateFailure(err) ==
    IF builtin # None THEN "AssertionError"
    ELSE IF CatchesException THEN "AttributeError"
    ELSE err

Min(S) == CHOOSE x \in S : \A y \in S : x <= y

\* validate_patient_data_integrity(patient_id, alias); failAt: the query (1..5)
\* on which the database reports an error of its own, 0 for none
ValidatePatientDataIntegrity(patient_id, alias, failAt) ==
    /\ Idle
    /\ UNCHANGED <<ROBOT_AVAILABLE, PSYCOPG2_AVAILABLE, PYMYSQL_AVAILABLE,
                   connections, current_connection, opened, tables, cleanup,
                   cipher, last, api, run, othervars>>
    /\ LET q == ValidateQueries(patient_id)
           r(i) == ExecuteHealthcareQuery(alias, q[i], failAt # i)
           \* patient_exists is false: the call returns after the first query
           absent == r(1).status = "ok" /\ r(1).rows[1].count = 0
           n == IF absent THEN 1 ELSE Len(q)
           failed == {i \in 1..n : r(i).status # "ok"}
           stop == IF failed = {} THEN n ELSE Min(failed)
           sent == IF r(stop).sent THEN stop ELSE stop - 1
       IN  /\ issued' = [i \in 1..sent |-> q[i]]
           /\ outcome' = Outcome("validate_patient_data_integrity",
                                 IF failed = {} THEN "ok"
                                 ELSE ValidateFailure(r(stop).status),
                                 {patient_id}, {})

\* verify_hipaa_audit_trail: SELECT COUNT(*) FROM audit_trail WHERE
\* patient_id = %s AND action = %s AND user_id = %s AND created_date >= %s
AuditStatement(patient_id) ==
    [kind |-> "SELECT", table |-> "audit_trail", ids |-> {patient_id}, ph |-> "%s"]

\* how verify_hipaa_audit_trail reports an error raised inside its try
AuditFailure(err) ==
    IF CatchesException
    THEN IF builtin # None THEN "AssertionError" ELSE "SecurityError"
    ELSE err

\* verify_hipaa_audit_trail(patient_id, action, user_id, alias); audit_exists:
\* whether the application wrote a matching entry in the last five minutes
VerifyHipaaAuditTrail(patient_id, alias, dbOk, audit_exists) ==
    /\ Idle
    /\ UNCHANGED <<ROBOT_AVAILABLE, PSYCOPG2_AVAILABLE, PYMYSQL_AVAILABLE,
                   connections, current_connection, opened, tables, cleanup,
                   cipher, last, api, run, othervars>>
    /\ LET stmt == AuditStatement(patient_id)
           r == ExecuteHealthcareQuery(alias, stmt, dbOk)
       IN  /\ issued' = IF r.sent THEN <<stmt>> ELSE <<>>
           /\ outcome' =
                 Outcome("verify_hipaa_audit_trail",
                         IF r.status # "ok" THEN AuditFailure(r.status)
                         ELSE IF audit_exists THEN "ok"
                         ELSE AuditFailure("AssertionError"),
                         {patient_id}, {})

\* the aliases Spec connects; the others stay unregistered
ConnectAliases == {"default"}

ConfigTypes == DbTypes \cup {"oracle"}

Init ==
    /\ ROBOT_AVAILABLE \in BOOLEAN
    /\ PSYCOPG2_AVAILABLE \in BOOLEAN
    /\ PYMYSQL_AVAILABLE \in BOOLEAN
    /\ connections = [a \in {} |-> None]
    /\ current_connection = None
    /\ opened = {}
    /\ tables = [t \in Tables |-> {}]
    /\ cleanup = NoCleanup
    /\ issued = <<>>
    /\ outcome = NoOutcome
    /\ cipher = None
    /\ last = NoCall
    /\ api = ApiInit
    /\ run = NoRun
    /\ clock = 0
    /\ created = <<>>
    /\ config = NoConfig
    /\ files = NoFiles
    /\ saved = NoSaves

Next ==
    \/ \E alias \in ConnectAliases, db_type \in ConfigTypes, reachable \in BOOLEAN :
          Connect(alias, db_type, reachable)
    \/ \E alias \in ConnectAliases : Disconnect(alias)
    \/ \E patient_id \in PatientIds, alias \in Aliases, dbOk \in BOOLEAN :
          CreateTestPatient(patient_id, alias, dbOk)
    \/ \E table \in ChildTables, patient_id \in PatientIds :
          AppInsertChild(table, patient_id)
    \/ \E patient_ids \in SUBSET PatientIds, alias \in Aliases :
          CleanupBegin(patient_ids, alias)
    \/ \E dbOk \in BOOLEAN : CleanupDelete(dbOk)
    \/ \E dbOk \in BOOLEAN : CleanupCount(dbOk)

Spec == Init /\ [][Next]_vars

\* The helper's query operations on a database that holds only the patients the
\* test created: every operation of the helper, without the application's rows
NextQueries ==
    \/ \E alias \in ConnectAliases, db_type \in ConfigTypes, reachable \in BOOLEAN :
          Connect(alias, db_type, reachable)
    \/ \E alias \in ConnectAliases : Disconnect(alias)
    \/ \E patient_id \in PatientIds, alias \in Aliases, dbOk \in BOOLEAN :
          CreateTestPatient(patient_id, alias, dbOk)
    \/ \E patient_ids \in SUBSET PatientIds, alias \in Aliases :
          CleanupBegin(patient_ids, alias)
    \/ \E dbOk \in BOOLEAN : CleanupDelete(dbOk)
    \/ \E dbOk \in BOOLEAN : CleanupCount(dbOk)
    \/ \E patient_id \in PatientIds, ph \in {"?", "%s"}, alias \in Aliases,
          dbOk \in BOOLEAN :
          ExecuteQuery(patient_id, ph, alias, dbOk)
    \/ \E patient_id \in PatientIds, alias \in Aliases, failAt \in 0..5 :
          ValidatePatientDataIntegrity(patient_id, alias, failAt)
    \/ \E patient_id \in PatientIds, alias \in Aliases, dbOk \in BOOLEAN,
          audit_exists \in BOOLEAN :
          VerifyHipaaAuditTrail(patient_id, alias, dbOk, audit_exists)

SpecQueries == Init /\ [][NextQueries]_vars

\* Patients whose id the helper generates, created and cleaned up while time
\* passes
GeneratedIds == {GeneratedId(t) : t \in 0..MaxClock}

NextIds ==
    \/ \E alias \in ConnectAliases, db_type \in DbTypes, reachable \in BOOLEAN :
          Connect(alias, db_type, reachable)
    \/ \E alias \in Aliases, dbOk \in BOOLEAN : CreateTestPatient(None, alias, dbOk)
    \/ \E patient_ids \in SUBSET GeneratedIds, alias \in Aliases :
          CleanupBegin(patient_ids, alias)
    \/ \E dbOk \in BOOLEAN : CleanupDelete(dbOk)
    \/ \E dbOk \in BOOLEAN : CleanupCount(dbOk)
    \/ Tick

SpecIds == Init /\ [][NextIds]_vars

\* The connection bookkeeping alone: connections opened and closed under every
\* alias, in any order
NextConnections ==
    \/ \E alias \in Aliases, db_type \in ConfigTypes, reachable \in BOOLEAN :
          Connect(alias, db_type, reachable)
    \/ \E alias \in Aliases : Disconnect(alias)

SpecConnections == Init /\ [][NextConnections]_vars

(***************************************************************************)
(* The security helper (utils/helpers.py, class SecurityHelper)            *)
(*                                                                         *)
(* Text is a sequence of code points, bytes a sequence of 0..255.  Keys    *)
(* and secrets are named by strings; Fernet and HS256 are ideal: a token   *)
(* opens under the key material it was made with and under no other.       *)
(***************************************************************************)
MaxTextLen == 2      \* characters of a plaintext
MaxSlack == 2        \* seconds around the OTP expiry window
MaxPwdLen == 9       \* largest password length requested
MaxSeed == 2         \* outcomes of the random source of one shuffle
MaxValueLen == 5     \* characters of a masked field's value

NoneOpt == <<>>          \* an optional argument left out (Python None)
Some(v) == <<v>>         \* an optional argument given

\* ---- OTP ----------------------------------------------------------------
OtpExpirySeconds == 300

\* Python truth of "if timestamp:": None and 0.0 are false
TimestampTruthy(timestamp) == timestamp # NoneOpt /\ timestamp[1] # 0

\* mutant: every pair of codes verifies when no timestamp is given
VerifyOtp_accepts_any(otp, expected_otp, timestamp, now) ==
    IF TimestampTruthy(timestamp) /\ now - timestamp[1] > OtpExpirySeconds
    THEN FALSE
    ELSE TRUE

\* verify_otp(otp, expected_otp, timestamp); now: time.time()
VerifyOtp(otp, expected_otp, timestamp, now) ==
    IF TimestampTruthy(timestamp) /\ now - timestamp[1] > OtpExpirySeconds
    THEN FALSE
    ELSE otp = expected_otp

Otps == {"000000", "482915"}
NowTimes == (OtpExpirySeconds + 1)..(OtpExpirySeconds + MaxSlack)
Timestamps == 0..(OtpExpirySeconds + MaxSlack + 1)

VerifyOtpCall(otp, expected_otp, timestamp, now) ==
    /\ last = NoCall
    /\ last' = [op |-> "verify_otp", otp |-> otp, expected_otp |-> expected_otp,
                timestamp |-> timestamp, now |-> now,
                result |-> VerifyOtp(otp, expected_otp, timestamp, now)]
    /\ UNCHANGED <<dbvars, cipher, api, run, othervars>>

\* ---- generate_secure_password -----------------------------------------
MinPasswordLength == 8

\* one representative of each character set of the code
lowercase == {"a"}
uppercase == {"A"}
digits == {"0"}
special == {"!"}
all_chars == lowercase \cup uppercase \cup digits \cup special

\* the sets the representatives stand for
AsciiLowercase == {"a", "b", "c", "d", "e", "f", "g", "h", "i", "j", "k", "l", "m",
                   "n", "o", "p", "q", "r", "s", "t", "u", "v", "w", "x", "y", "z"}
AsciiUppercase == {"A", "B", "C", "D", "E", "F", "G", "H", "I", "J", "K", "L", "M",
                   "N", "O", "P", "Q", "R", "S", "T", "U", "V", "W", "X", "Y", "Z"}
AsciiDigits == {"0", "1", "2", "3", "4", "5", "6", "7", "8", "9"}
Symbols == {"!", "@", "#", "$", "%", "^", "&", "*"}

\* mutant: the requested length is not clamped
PasswordLength_unclamped(length) == length

\* "if length < 8: length = 8"
PasswordLength(length) ==
    IF length < MinPasswordLength THEN MinPasswordLength ELSE length

Swap(x, i, j) == [x EXCEPT ![i] = x[j], ![j] = x[i]]

\* random.shuffle: for i from the last index down to the second, swap x[i] with
\* x[j], j drawn from the first i positions; seed decides the draws
RECURSIVE ShuffleFrom(_, _, _)
ShuffleFrom(x, i, seed) ==
    IF i < 2 THEN x
    ELSE ShuffleFrom(Swap(x, i, 1 + (seed % i)), i - 1, seed + 1)

Shuffle(x, seed) == ShuffleFrom(x, Len(x), seed)

\* generate_secure_password: one character of each set, then fill, the
\* length - 4 characters drawn from all_chars, then the shuffle
GenerateSecurePassword(required, fill, seed) == Shuffle(required \o fill, seed)

GenerateSecurePasswordCall(length) ==
    /\ last = NoCall
    /\ \E lo \in lowercase, up \in uppercase, di \in digits, sp \in special,
          fill \in [1..(PasswordLength(length) - 4) -> all_chars],
          seed \in 0..MaxSeed :
          last' = [op |-> "generate_secure_password", length |-> length,
                   result |-> GenerateSecurePassword(<<lo, up, di, sp>>, fill, seed)]
    /\ UNCHANGED <<dbvars, cipher, api, run, othervars>>

\* ---- encrypt_data / decrypt_data ---------------------------------------
\* keys that Fernet accepts (32 url-safe base64-encoded bytes), by name
ValidKeys == {"key1", "key2"}
\* what a caller may pass as key: nothing, "", a malformed key, a valid key
KeyArgs == ValidKeys \cup {None, "", "not-a-fernet-key"}
Ivs == {1, 2}

\* code points: "a" (one byte in UTF-8) and e-acute (two bytes)
CodePoints == {97, 233}
Texts == UNION {[1..n -> CodePoints] : n \in 0..MaxTextLen}

\* str.encode(): UTF-8
RECURSIVE Utf8Encode(_)
Utf8Encode(text) ==
    IF text = <<>> THEN <<>>
    ELSE (IF Head(text) < 128 THEN <<Head(text)>>
          ELSE <<192 + (Head(text) \div 64), 128 + (Head(text) % 64)>>)
         \o Utf8Encode(Tail(text))

\* bytes.decode(): UTF-8
RECURSIVE Utf8Decode(_)
Utf8Decode(bytes) ==
    IF bytes = <<>> THEN <<>>
    ELSE IF Head(bytes) < 128
    THEN <<Head(bytes)>> \o Utf8Decode(Tail(bytes))
    ELSE <<(Head(bytes) - 192) * 64 + (bytes[2] - 128)>>
         \o Utf8Decode(Tail(Tail(bytes)))

\* Python truth of "if key:": None and "" are false
KeyTruthy(key) == key # None /\ key # ""

\* the key of the cipher a call uses: Fernet(key.encode()) or self.cipher
CipherKey(key) == IF KeyTruthy(key) THEN key ELSE cipher

\* encrypt_data(data, key); iv: the random IV Fernet draws
EncryptData(data, key, iv) ==
    IF CipherKey(key) \notin ValidKeys
    THEN [raised |-> "ValueError", result |-> <<>>]
    ELSE [raised |-> None,
          result |-> [key |-> CipherKey(key), iv |-> iv,
                      plaintext |-> Utf8Encode(data)]]

\* mutant: the token is opened without checking its signature against the key
DecryptData_unauthenticated(token, key) ==
    IF CipherKey(key) \notin ValidKeys
    THEN [raised |-> "ValueError", result |-> <<>>]
    ELSE [raised |-> None, result |-> Utf8Decode(token.plaintext)]

\* mutant: the plaintext bytes are returned as latin-1 text
DecryptData_latin1(token, key) ==
    IF CipherKey(key) \notin ValidKeys
    THEN [raised |-> "ValueError", result |-> <<>>]
    ELSE IF token.key # CipherKey(key)
    THEN [raised |-> "InvalidToken", result |-> <<>>]
    ELSE [raised |-> None, result |-> token.plaintext]

\* decrypt_data(encrypted_data, key)
DecryptData(token, key) ==
    IF CipherKey(key) \notin ValidKeys
    THEN [raised |-> "ValueError", result |-> <<>>]
    ELSE IF token.key # CipherKey(key)
    THEN [raised |-> "InvalidToken", result |-> <<>>]
    ELSE [raised |-> None, result |-> Utf8Decode(token.plaintext)]

EncryptDataCall(data, key, iv) ==
    /\ last = NoCall
    /\ last' = [op |-> "encrypt_data", data |-> data, key |-> key,
                raised |-> EncryptData(data, key, iv).raised,
                result |-> EncryptData(data, key, iv).result]
    /\ UNCHANGED <<dbvars, cipher, api, run, othervars>>

\* decrypt_data on the ciphertext the preceding encrypt_data returned
DecryptDataCall(key) ==
    /\ last.op = "encrypt_data"
    /\ last.raised = None
    /\ last' = [op |-> "decrypt_data", data |-> last.data, enc_key |-> last.key,
                token |-> last.result, key |-> key,
                raised |-> DecryptData(last.result, key).raised,
                result |-> DecryptData(last.result, key).result]
    /\ UNCHANGED <<dbvars, cipher, api, run, othervars>>

\* ---- generate_jwt_token / verify_jwt_token -----------------------------
TokenLifetimeSeconds == 3600

Secrets == {"test_secret_key", "wrong_secret"}
IssueTimes == {1000}
\* seconds between the issue of a token and its verification
Elapsed == {0, TokenLifetimeSeconds - 1, TokenLifetimeSeconds}

\* payload fields and the values each may carry (JSON values, named by numbers):
\* exp and iat in the past, nbf in the future, aud a non-empty audience
PayloadFields == {"user_id", "exp", "iat", "aud", "nbf"}
FieldValues(f) ==
    CASE f = "user_id" -> {101, 102}
      [] f = "exp" -> {5}
      [] f = "iat" -> {7}
      [] f = "aud" -> {42}
      [] f = "nbf" -> {100000}
PayloadValues == UNION {FieldValues(f) : f \in PayloadFields}
Payloads ==
    UNION {{p \in [D -> PayloadValues] : \A f \in D : p[f] \in FieldValues(f)} :
           D \in SUBSET PayloadFields}

\* mutant: the token carries only the two time claims
GenerateJwtToken_times_only(payload, secret, now) ==
    LET claims == [f \in {"exp", "iat"} |->
                      IF f = "exp" THEN now + TokenLifetimeSeconds ELSE now]
    IN  [payload |-> claims, token |-> [claims |-> claims, sig |-> secret]]

\* generate_jwt_token(payload, secret); now: datetime.utcnow().
\* payload: the caller's mapping after the call (exp and iat are assigned in
\* place); token: the claims signed with the secret
GenerateJwtToken(payload, secret, now) ==
    LET claims == [f \in DOMAIN payload \cup {"exp", "iat"} |->
                      IF f = "exp" THEN now + TokenLifetimeSeconds
                      ELSE IF f = "iat" THEN now
                      ELSE payload[f]]
    IN  [payload |-> claims, token |-> [claims |-> claims, sig |-> secret]]

\* mutant: the token is decoded without verifying its signature
VerifyJwtToken_unverified(token, secret, now) ==
    [raised |-> None, result |-> token.claims]

\* verify_jwt_token(token, secret): jwt.decode(token, secret, algorithms=['HS256'])
\* with its default validation of the registered claims; now: the time of the call
VerifyJwtToken(token, secret, now) ==
    IF token.sig # secret
    THEN [raised |-> "InvalidSignatureError", result |-> <<>>]
    ELSE IF "nbf" \in DOMAIN token.claims /\ token.claims["nbf"] > now
    THEN [raised |-> "ImmatureSignatureError", result |-> <<>>]
    ELSE IF "exp" \in DOMAIN token.claims /\ token.claims["exp"] <= now
    THEN [raised |-> "ExpiredSignatureError", result |-> <<>>]
    ELSE IF "aud" \in DOMAIN token.claims /\ token.claims["aud"] # 0
    THEN [raised |-> "InvalidAudienceError", result |-> <<>>]
    ELSE [raised |-> None, result |-> token.claims]

GenerateJwtTokenCall(payload, secret, now) ==
    /\ last = NoCall
    /\ last' = [op |-> "generate_jwt_token", payload |-> payload,
                secret |-> secret, now |-> now,
                payload_after |-> GenerateJwtToken(payload, secret, now).payload,
                result |-> GenerateJwtToken(payload, secret, now).token]
    /\ UNCHANGED <<dbvars, cipher, api, run, othervars>>

\* verify_jwt_token on the token the preceding generate_jwt_token returned
VerifyJwtTokenCall(secret, elapsed) ==
    /\ last.op = "generate_jwt_token"
    /\ last' = [op |-> "verify_jwt_token", payload |-> last.payload,
                issue_secret |-> last.secret, issued_at |-> last.now,
                token |-> last.result, secret |-> secret, elapsed |-> elapsed,
                raised |-> VerifyJwtToken(last.result, secret,
                                          last.now + elapsed).raised,
                result |-> VerifyJwtToken(last.result, secret,
                                          last.now + elapsed).result]
    /\ UNCHANGED <<dbvars, cipher, api, run, othervars>>

\* ---- mask_pii -----------------------------------------------------------
MaskKeepLast == 4

DefaultFieldsToMask ==
    <<"social_security_number", "ssn", "phone_number",
      "email", "address_line1", "address_line2">>

\* str() of a non-negative integer
RECURSIVE IntToStr(_)
IntToStr(n) ==
    IF n < 10 THEN <<DigitChars[n + 1]>>
    ELSE IntToStr(n \div 10) \o <<DigitChars[(n % 10) + 1]>>

StrValue(s) == [type |-> "str", s |-> s]
IntValue(n) == [type |-> "int", n |-> n]

\* str(masked_data[field])
Str(value) == IF value.type = "int" THEN IntToStr(value.n) ELSE value.s

Stars(n) == [i \in 1..n |-> "*"]

\* mutant: a value of exactly 4 characters keeps them all
MaskValue_off_by_one(value) ==
    IF Len(value) >= MaskKeepLast
    THEN Stars(Len(value) - MaskKeepLast)
         \o SubSeq(value, Len(value) - MaskKeepLast + 1, Len(value))
    ELSE Stars(Len(value))

\* the masked form of a field's string value
MaskValue(value) ==
    IF Len(value) > MaskKeepLast
    THEN Stars(Len(value) - MaskKeepLast)
         \o SubSeq(value, Len(value) - MaskKeepLast + 1, Len(value))
    ELSE Stars(Len(value))

\* the loop of mask_pii over fields_to_mask
RECURSIVE MaskFields(_, _)
MaskFields(masked_data, fields) ==
    IF fields = <<>> THEN masked_data
    ELSE MaskFields(
            IF Head(fields) \in DOMAIN masked_data
            THEN [masked_data EXCEPT
                     ![Head(fields)] = StrValue(MaskValue(Str(masked_data[Head(fields)])))]
            ELSE masked_data,
            Tail(fields))

\* the fields mask_pii goes through: the default list when none is given
FieldsToMask(fields_to_mask) ==
    IF fields_to_mask = NoneOpt THEN DefaultFieldsToMask ELSE fields_to_mask[1]

\* mask_pii(data, fields_to_mask)
MaskPii(data, fields_to_mask) == MaskFields(data, FieldsToMask(fields_to_mask))

ValueChars == {"a", "b"}
ValueStrings == UNION {[1..n -> ValueChars] : n \in 0..MaxValueLen}
ValueInts == {7, 1234, 12345, 1234567}
FieldsArgs == {NoneOpt, Some(<<>>), Some(<<"first_name">>),
               Some(<<"ssn", "first_name", "ssn">>)}

\* the record passed to mask_pii: an ssn, with or without a first_name
PiiData(ssn, with_name) ==
    IF with_name
    THEN [f \in {"ssn", "first_name"} |->
             IF f = "ssn" THEN ssn ELSE StrValue(<<"b", "a", "a", "a", "b">>)]
    ELSE [f \in {"ssn"} |-> ssn]

MaskPiiCall(ssn, with_name, fields_to_mask) ==
    /\ last = NoCall
    /\ last' = [op |-> "mask_pii", data |-> PiiData(ssn, with_name),
                fields_to_mask |-> fields_to_mask,
                result |-> MaskPii(PiiData(ssn, with_name), fields_to_mask)]
    /\ UNCHANGED <<dbvars, cipher, api, run, othervars>>

\* ---- sanitize_input -----------------------------------------------------
MaxFragments == 3    \* pieces an input string is put together from

\* the denylist of the second pattern
SqlKeywords ==
    {<<"u", "n", "i", "o", "n">>,
     <<"s", "e", "l", "e", "c", "t">>,
     <<"i", "n", "s", "e", "r", "t">>,
     <<"d", "e", "l", "e", "t", "e">>,
     <<"u", "p", "d", "a", "t", "e">>,
     <<"d", "r", "o", "p">>,
     <<"c", "r", "e", "a", "t", "e">>,
     <<"a", "l", "t", "e", "r">>}

\* the markers of the third pattern: --, #, /* and */
CommentMarkers == {<<"-", "-">>, <<"#">>, <<"/", "*">>, <<"*", "/">>}

AsciiLetters ==
    {"a", "b", "c", "d", "e", "f", "g", "h", "i", "j", "k", "l", "m", "n", "o",
     "p", "q", "r", "s", "t", "u", "v", "w", "x", "y", "z", "D"}

\* \w of the regular expressions, on the characters of the model
IsWordChar(c) == c \in AsciiLetters

\* lower case of a character (re.IGNORECASE); "D" is the upper-case letter here
Lower(c) == IF c = "D" THEN "d" ELSE c

\* the pattern w matches s at position i, letter case ignored or not
MatchAt(s, i, w, ignorecase) ==
    /\ i + Len(w) - 1 <= Len(s)
    /\ \A k \in 1..Len(w) :
          (IF ignorecase THEN Lower(s[i + k - 1]) ELSE s[i + k - 1]) = w[k]

\* \b: a word boundary just before position i of s
WordBoundary(s, i) ==
    (i - 1 \in 1..Len(s) /\ IsWordChar(s[i - 1]))
       # (i \in 1..Len(s) /\ IsWordChar(s[i]))

\* the keywords that \b(union|...|alter)\b matches at position i
KeywordsAt(s, i) ==
    {w \in SqlKeywords : /\ WordBoundary(s, i)
                         /\ MatchAt(s, i, w, TRUE)
                         /\ WordBoundary(s, i + Len(w))}

MarkersAt(s, i) == {w \in CommentMarkers : MatchAt(s, i, w, FALSE)}

\* re.sub(r'<[^>]*>', '', s): one pass from the left, from position i on
RECURSIVE RemoveTags(_, _)
RemoveTags(s, i) ==
    IF i > Len(s) THEN <<>>
    ELSE IF s[i] = "<" /\ \E j \in (i + 1)..Len(s) : s[j] = ">"
    THEN RemoveTags(s, 1 + CHOOSE j \in (i + 1)..Len(s) :
                              /\ s[j] = ">"
                              /\ \A k \in (i + 1)..(j - 1) : s[k] # ">")
    ELSE <<s[i]>> \o RemoveTags(s, i + 1)

\* re.sub of the keyword pattern, flags=re.IGNORECASE: one pass from the left
RECURSIVE RemoveKeywords(_, _)
RemoveKeywords(s, i) ==
    IF i > Len(s) THEN <<>>
    ELSE IF KeywordsAt(s, i) # {}
    THEN RemoveKeywords(s, i + Len(CHOOSE w \in KeywordsAt(s, i) : TRUE))
    ELSE <<s[i]>> \o RemoveKeywords(s, i + 1)

\* re.sub(r'(--|#|/\*|\*/)', '', s): one pass from the left
RECURSIVE RemoveComments(_, _)
RemoveComments(s, i) ==
    IF i > Len(s) THEN <<>>
    ELSE IF MarkersAt(s, i) # {}
    THEN RemoveComments(s, i + Len(CHOOSE w \in MarkersAt(s, i) : TRUE))
    ELSE <<s[i]>> \o RemoveComments(s, i + 1)

\* str.strip(): leading and trailing white space removed
RECURSIVE Strip(_)
Strip(s) ==
    IF s = <<>> THEN s
    ELSE IF Head(s) = " " THEN Strip(Tail(s))
    ELSE IF s[Len(s)] = " " THEN Strip(SubSeq(s, 1, Len(s) - 1))
    ELSE s

\* sanitize_input(input_str)
SanitizeInput(input_str) ==
    Strip(RemoveComments(RemoveKeywords(RemoveTags(input_str, 1), 1), 1))

SanitizeFragments ==
    {<<"<">>, <<">">>, <<"-">>, <<"#">>, <<"/">>, <<"*">>, <<" ">>, <<"b">>,
     <<"d", "r">>, <<"o", "p">>, <<"D", "r", "o", "p">>}

RECURSIVE Flatten(_)
Flatten(fs) == IF fs = <<>> THEN <<>> ELSE Head(fs) \o Flatten(Tail(fs))

SanitizeInputs ==
    {Flatten(fs) : fs \in UNION {[1..n -> SanitizeFragments] : n \in 0..MaxFragments}}

SanitizeInputCall(input_str) ==
    /\ last = NoCall
    /\ last' = [op |-> "sanitize_input", input_str |-> input_str,
                result |-> SanitizeInput(input_str)]
    /\ UNCHANGED <<dbvars, cipher, api, run, othervars>>

\* ---- generate_otp -----------------------------------------------------
\* at most this many of the six draws are a digit other than '0'
MaxOtpNonZero == 2

\* range(6)
OtpLength == 6

\* mutant: the alphabet lacks '0'
OtpAlphabet_no_zero == <<"1", "2", "3", "4", "5", "6", "7", "8", "9">>

\* the alphabet the digits are drawn from: '0123456789'
OtpAlphabet == DigitChars

\* secrets.choice(seq): seq[secrets.randbelow(len(seq))]; r: the random number
SecretsChoice(seq, r) == seq[(r % Len(seq)) + 1]

\* generate_otp(); draws: the random number of each of the six draws
GenerateOtp(draws) ==
    [i \in 1..OtpLength |-> SecretsChoice(OtpAlphabet, draws[i])]

\* the random numbers of one call: zero except at the positions in P
OtpDraws(P, r) == [i \in 1..OtpLength |-> IF i \in P THEN r[i] ELSE 0]

GenerateOtpCall(draws) ==
    /\ last = NoCall
    /\ last' = [op |-> "generate_otp", draws |-> draws,
                result |-> GenerateOtp(draws)]
    /\ UNCHANGED <<dbvars, cipher, api, run, othervars>>

\* ---- the security helper's specification -------------------------------
\* One behaviour is one instance and one call on it, or a call and the call that
\* consumes its result: the calls keep no state but the instance key, which no
\* call changes, so a longer sequence of calls computes nothing new.
InitSecurity ==
    /\ ROBOT_AVAILABLE = TRUE
    /\ PSYCOPG2_AVAILABLE = TRUE
    /\ PYMYSQL_AVAILABLE = TRUE
    /\ connections = [a \in {} |-> None]
    /\ current_connection = None
    /\ opened = {}
    /\ tables = [t \in Tables |-> {}]
    /\ cleanup = NoCleanup
    /\ issued = <<>>
    /\ outcome = NoOutcome
    /\ cipher \in ValidKeys      \* __init__: a generated or a supplied key
    /\ last = NoCall
    /\ api = ApiInit
    /\ run = NoRun
    /\ clock = 0
    /\ created = <<>>
    /\ config = NoConfig
    /\ files = NoFiles
    /\ saved = NoSaves

Fresh == last = NoCall

NextSecurity ==
    \/ Fresh /\ \E otp \in Otps, expected_otp \in Otps, now \in NowTimes :
                   VerifyOtpCall(otp, expected_otp, NoneOpt, now)
    \/ Fresh /\ \E otp \in Otps, expected_otp \in Otps, now \in NowTimes,
                    t \in Timestamps :
                   VerifyOtpCall(otp, expected_otp, Some(t), now)
    \/ Fresh /\ \E length \in (-1)..MaxPwdLen : GenerateSecurePasswordCall(length)
    \/ Fresh /\ \E data \in Texts, key \in KeyArgs, iv \in Ivs :
                   EncryptDataCall(data, key, iv)
    \/ \E key \in KeyArgs : DecryptDataCall(key)
    \/ Fresh /\ \E payload \in Payloads, secret \in Secrets, now \in IssueTimes :
                   GenerateJwtTokenCall(payload, secret, now)
    \/ \E secret \in Secrets, elapsed \in Elapsed : VerifyJwtTokenCall(secret, elapsed)
    \/ Fresh /\ \E with_name \in BOOLEAN, fields_to_mask \in FieldsArgs,
                    s \in ValueStrings :
                   MaskPiiCall(StrValue(s), with_name, fields_to_mask)
    \/ Fresh /\ \E with_name \in BOOLEAN, fields_to_mask \in FieldsArgs,
                    n \in ValueInts :
                   MaskPiiCall(IntValue(n), with_name, fields_to_mask)
    \/ Fresh /\ \E input_str \in SanitizeInputs : SanitizeInputCall(input_str)
    \/ Fresh /\ \E P \in {Q \in SUBSET (1..OtpLength) :
                              Cardinality(Q) <= MaxOtpNonZero} :
                 \E r \in [P -> 1..9] : GenerateOtpCall(OtpDraws(P, r))

SpecSecurity == InitSecurity /\ [][NextSecurity]_vars

(***************************************************************************)
(* The API keyword library (libraries/APIHealthcareLibrary.py)             *)
(*                                                                         *)
(* The library always has a runner context (robot is imported without a    *)
(* fallback): builtin.fail raises AssertionError.                          *)
(***************************************************************************)
MaxSessions == 2     \* sessions one library instance goes through

DefaultGetStatus == 200
DefaultPostStatus == 201

Tokens == {"tok1", "tok2"}

\* a URL argument: its text and the number of "/" that follow it
UrlArgs == {[text |-> "https://api.test.com", slashes |-> n] : n \in 0..1}

\* url.rstrip('/')
RStripSlash(url) == url.text

\* what the server makes of a request: no response at all (a
\* requests.exceptions.RequestException), or a status and a body
Statuses == {200, 201, 404}
Bodies == {"{\"id\": 1}", "<html>"}
Responses ==
    {[kind |-> "error"]}
       \cup {[kind |-> "response", status |-> st, body |-> b] :
                st \in Statuses, b \in Bodies}

\* response.json(): the parsed body, or nothing for a body that is not JSON (the
\* call raises a JSONDecodeError)
JsonParse(body) == IF body = "{\"id\": 1}" THEN Some([id |-> 1]) ELSE NoneOpt

\* the answers to the login request: an error (no response, an error status or
\* a body that is not JSON) or a JSON body with a token, "" when it has none
AuthResponses == {[kind |-> "error"]}
                    \cup {[kind |-> "response", token |-> t] : t \in Tokens \cup {""}}

ApiOutcome(op, status, result) == [op |-> op, status |-> status, result |-> result]

\* set_healthcare_api_base_url(url)
SetHealthcareApiBaseUrl(url) ==
    /\ api' = [api EXCEPT !.base_url = RStripSlash(url),
                          !.session.json_headers = TRUE,
                          !.outcome = ApiOutcome("set_healthcare_api_base_url",
                                                 "ok", NoneOpt)]
    /\ UNCHANGED <<dbvars, secvars, run, othervars>>

\* the Authorization header of a token: f'Bearer {self.auth_token}'
Bearer(token) == "Bearer " \o token

\* authenticate_healthcare_api(username, password): the login request goes out
\* with the headers of the session
AuthenticateHealthcareApi(response) ==
    /\ api' =
          IF response.kind = "error"
          THEN [api EXCEPT !.sent = @ \cup {api.session.Authorization},
                           !.outcome = ApiOutcome("authenticate_healthcare_api",
                                                  "AssertionError", NoneOpt)]
          ELSE IF response.token = ""
          THEN \* "Authentication token not found in response"
               [api EXCEPT !.sent = @ \cup {api.session.Authorization},
                           !.auth_token = "",
                           !.outcome = ApiOutcome("authenticate_healthcare_api",
                                                  "AssertionError", NoneOpt)]
          ELSE [api EXCEPT !.sent = @ \cup {api.session.Authorization},
                           !.auth_token = response.token,
                           !.session.Authorization = Bearer(response.token),
                           !.cleared = FALSE,
                           !.outcome = ApiOutcome("authenticate_healthcare_api",
                                                  "ok", Some(response.token))]
    /\ UNCHANGED <<dbvars, secvars, run, othervars>>

\* mutant: POST expects 200 by default, like GET
ExpectedStatus_get_default(method, expected_status) ==
    IF expected_status = NoneOpt THEN DefaultGetStatus ELSE expected_status[1]

\* the expected_status parameter: 200 by default for GET, 201 for POST
ExpectedStatus(method, expected_status) ==
    IF expected_status = NoneOpt
    THEN IF method = "GET" THEN DefaultGetStatus ELSE DefaultPostStatus
    ELSE expected_status[1]

\* the body of get_healthcare_api and post_healthcare_api
Request(method, expected_status, response) ==
    LET expected == ExpectedStatus(method, expected_status)
        op == IF method = "GET" THEN "get_healthcare_api" ELSE "post_healthcare_api"
        result == IF /\ response.kind = "response"
                     /\ response.status = expected
                  THEN JsonParse(response.body)
                  ELSE NoneOpt
        call == [op |-> op, expected_status |-> expected_status,
                 response |-> response,
                 \* a request that fails, a status that differs and a body
                 \* that is not JSON all end in builtin.fail
                 status |-> IF result = NoneOpt THEN "AssertionError" ELSE "ok",
                 result |-> result]
    IN  /\ api' = [api EXCEPT !.sent = @ \cup {api.session.Authorization},
                              !.last_response =
                                  IF response.kind = "response" THEN response
                                  ELSE api.last_response,
                              !.outcome = call]
        /\ UNCHANGED <<dbvars, secvars, run, othervars>>

GetHealthcareApi(expected_status, response) ==
    Request("GET", expected_status, response)

PostHealthcareApi(expected_status, response) ==
    Request("POST", expected_status, response)

\* mutant: the new session takes over the headers of the old one
NewSession_keeps_headers(session) == [session EXCEPT !.id = session.id + 1]

\* requests.Session(): a session with none of the headers the library sets
NewSession(session) ==
    [id |-> session.id + 1, Authorization |-> None, json_headers |-> FALSE]

\* clear_healthcare_api_session()
ClearHealthcareApiSession ==
    /\ api.session.id < MaxSessions
    /\ api' = [api EXCEPT !.session = NewSession(api.session),
                          !.auth_token = "",
                          !.last_response = None,
                          !.sent = {},
                          !.cleared = TRUE,
                          !.old_token = api.auth_token,
                          !.outcome = ApiOutcome("clear_healthcare_api_session",
                                                 "ok", NoneOpt)]
    /\ UNCHANGED <<dbvars, secvars, run, othervars>>

ExpectedStatusArgs == {NoneOpt} \cup {Some(st) : st \in Statuses}

NextApi ==
    \/ \E url \in UrlArgs : SetHealthcareApiBaseUrl(url)
    \/ \E response \in AuthResponses : AuthenticateHealthcareApi(response)
    \/ \E expected_status \in ExpectedStatusArgs, response \in Responses :
          GetHealthcareApi(expected_status, response)
    \/ \E expected_status \in ExpectedStatusArgs, response \in Responses :
          PostHealthcareApi(expected_status, response)
    \/ ClearHealthcareApiSession

(***************************************************************************)
(* The command-line test runner (run_tests.py)                             *)
(***************************************************************************)
ExitSuccess == 0
ExitFailure == 1     \* also the status of a process ended by an uncaught exception

TestTypes == {"unit", "api", "ui", "database", "smoke", "regression", "all"}

\* the commands a test type runs, in order (run_unit_tests ... run_all_tests)
Suites(test_type) ==
    CASE test_type = "smoke" -> <<"api_smoke", "ui_smoke">>
      [] test_type = "regression" -> <<"api_regression", "ui_regression">>
      [] test_type = "all" -> <<"unit", "api", "ui", "database">>
      [] OTHER -> <<test_type>>

\* how a subprocess started by the runner ends
CommandResults == {"exit0", "CalledProcessError", "OSError"}

\* _run_command: true when the command ran and returned 0
RunCommand(result) == result = "exit0"

\* the value main() stores in success once the suites of a test type have run
Success(test_type, results) ==
    CASE test_type \in {"smoke", "regression"} ->
            ~\E i \in 1..Len(results) : ~results[i]
      [] test_type = "all" -> \A i \in 1..Len(results) : results[i]
      [] OTHER -> results[1]

\* main(): the arguments are parsed, the runner is set up
Main(test_type, allure, cleanup_flag) ==
    /\ run.pc = "start"
    /\ run' = [pc |-> "suites", test_type |-> test_type, allure |-> allure,
               cleanup |-> cleanup_flag, results |-> <<>>, exit |-> None]
    /\ UNCHANGED <<dbvars, secvars, api, othervars>>

\* one suite of the selected test type runs; the next one follows whatever
\* this one returned
RunSuite(result) ==
    /\ run.pc = "suites"
    /\ LET results == Append(run.results, RunCommand(result))
       IN  run' = [run EXCEPT !.results = results,
                              !.pc = IF Len(results) = Len(Suites(run.test_type))
                                     THEN "allure" ELSE "suites"]
    /\ UNCHANGED <<dbvars, secvars, api, othervars>>

\* if args.allure: generate_allure_report(); which: how the subprocess
\* "which allure" of _command_exists ends; its return value is not used
GenerateAllureReport(which, result) ==
    /\ run.pc = "allure"
    /\ run' = IF run.allure /\ which = "OSError"
              THEN \* subprocess.call raises, nothing catches it
                   [run EXCEPT !.pc = "exited", !.exit = ExitFailure]
              ELSE [run EXCEPT !.pc = "cleanup"]
    /\ UNCHANGED <<dbvars, secvars, api, othervars>>

\* if args.cleanup: cleanup_test_data(); its return value is not used
CleanupTestData(script_exists, result) ==
    /\ run.pc = "cleanup"
    /\ run' = [run EXCEPT !.pc = "exit"]
    /\ UNCHANGED <<dbvars, secvars, api, othervars>>

\* sys.exit(0 if success else 1)
SysExit ==
    /\ run.pc = "exit"
    /\ run' = [run EXCEPT !.pc = "exited",
                          !.exit = IF Success(run.test_type, run.results)
                                   THEN ExitSuccess ELSE ExitFailure]
    /\ UNCHANGED <<dbvars, secvars, api, othervars>>

InitRunner ==
    /\ ROBOT_AVAILABLE = TRUE
    /\ PSYCOPG2_AVAILABLE = TRUE
    /\ PYMYSQL_AVAILABLE = TRUE
    /\ connections = [a \in {} |-> None]
    /\ current_connection = None
    /\ opened = {}
    /\ tables = [t \in Tables |-> {}]
    /\ cleanup = NoCleanup
    /\ issued = <<>>
    /\ outcome = NoOutcome
    /\ cipher = None
    /\ last = NoCall
    /\ api = ApiInit
    /\ run = NoRun
    /\ clock = 0
    /\ created = <<>>
    /\ config = NoConfig
    /\ files = NoFiles
    /\ saved = NoSaves

NextRunner ==
    \/ \E test_type \in TestTypes, allure \in BOOLEAN, cleanup_flag \in BOOLEAN :
          Main(test_type, allure, cleanup_flag)
    \/ \E result \in CommandResults : RunSuite(result)
    \/ \E which \in {"exit0", "exit1", "OSError"}, result \in CommandResults :
          GenerateAllureReport(which, result)
    \/ \E script_exists \in BOOLEAN, result \in CommandResults :
          CleanupTestData(script_exists, result)
    \/ SysExit

SpecRunner == InitRunner /\ [][NextRunner]_vars

\* the API library: a new instance (the initial state is that of SpecRunner)
SpecApi == InitRunner /\ [][NextApi]_vars

(***************************************************************************)
(* The configuration manager (utils/helpers.py, class ConfigManager)       *)
(***************************************************************************)
\* at most this many keys in the configuration file
MaxFileKeys == 2
\* at most this many of the environment variables are set
MaxEnvSet == 2

BoolValue(b) == [type |-> "bool", b |-> b]

\* the keys of env_vars, in order
EnvKeys == <<"base_url", "api_base_url", "db_host", "db_port", "db_name",
             "timeout", "headless">>

\* the environment variable env_vars reads for a key
EnvName(key) ==
    CASE key = "base_url" -> "BASE_URL"
      [] key = "api_base_url" -> "API_BASE_URL"
      [] key = "db_host" -> "DB_HOST"
      [] key = "db_port" -> "DB_PORT"
      [] key = "db_name" -> "DB_NAME"
      [] key = "timeout" -> "TIMEOUT"
      [] key = "headless" -> "HEADLESS"

EnvNames == {EnvName(EnvKeys[i]) : i \in 1..Len(EnvKeys)}

\* os.getenv(name): the value, or None when the variable is not set
Getenv(env, name) == IF name \in DOMAIN env THEN Some(env[name]) ELSE NoneOpt

\* os.getenv(name, default)
GetenvDefault(env, name, default) ==
    IF name \in DOMAIN env THEN env[name] ELSE default

\* str.lower() on the values an environment variable takes here
LowerStr(v) == IF v = "True" THEN "true" ELSE v

\* env_vars: key -> the overriding value, or None
EnvVars(env) ==
    [key \in {EnvKeys[i] : i \in 1..Len(EnvKeys)} |->
        CASE key = "timeout" -> Some(StrValue(GetenvDefault(env, "TIMEOUT", "30")))
          [] key = "headless" ->
                Some(BoolValue(LowerStr(GetenvDefault(env, "HEADLESS", "false"))
                                  = "true"))
          [] OTHER -> IF Getenv(env, EnvName(key)) = NoneOpt THEN NoneOpt
                      ELSE Some(StrValue(Getenv(env, EnvName(key))[1]))]

\* the keys a configuration file can hold: those of env_vars and one more
FileKeys == {EnvKeys[i] : i \in 1..Len(EnvKeys)} \cup {"browser"}

\* the value the file gives a key
FileValue(key) ==
    CASE key = "timeout" -> IntValue(60)
      [] key = "headless" -> BoolValue(TRUE)
      [] OTHER -> StrValue("file")

\* the config_file argument: none (no argument, no such file, or a file that is
\* neither JSON nor YAML), an empty YAML file, or a file holding a mapping
ConfigFiles ==
    {[kind |-> "none"], [kind |-> "empty"]}
       \cup {[kind |-> "dict", data |-> [key \in S |-> FileValue(key)]] :
                S \in {T \in SUBSET FileKeys : Cardinality(T) <= MaxFileKeys}}

EnvValues == {"True", "x"}

\* the environment of the process: the variables set, and their values
Environments ==
    UNION {[S -> EnvValues] :
              S \in {T \in SUBSET EnvNames : Cardinality(T) <= MaxEnvSet}}

\* load_config(config_file) on a new ConfigManager
LoadConfig(file, env) ==
    /\ last = NoCall
    /\ LET \* self.config after the file was read: yaml.safe_load returns None
           \* for an empty file
           loaded == IF file.kind = "dict" THEN Some(file.data)
                     ELSE IF file.kind = "empty" THEN NoneOpt
                     ELSE config
           over == {key \in DOMAIN EnvVars(env) : EnvVars(env)[key] # NoneOpt}
           result == [key \in DOMAIN loaded[1] \cup over |->
                         IF key \in over THEN EnvVars(env)[key][1]
                         ELSE loaded[1][key]]
       IN  IF loaded = NoneOpt
           THEN \* self.config[key] = value raises TypeError on None
                /\ config' = NoneOpt
                /\ last' = [op |-> "load_config", file |-> file, env |-> env,
                            status |-> "TypeError", result |-> NoneOpt]
           ELSE /\ config' = Some(result)
                /\ last' = [op |-> "load_config", file |-> file, env |-> env,
                            status |-> "ok", result |-> Some(result)]
    /\ UNCHANGED <<dbvars, cipher, api, run, clock, created, files, saved>>

NextConfig ==
    \E file \in ConfigFiles, env \in Environments : LoadConfig(file, env)

\* one ConfigManager and one load_config call on it
SpecConfig == InitRunner /\ [][NextConfig]_vars

(***************************************************************************)
(* The test-data manager (utils/helpers.py, class TestDataManager)         *)
(*                                                                         *)
(* Data is a list of rows, a row maps the column "id" to a string or an    *)
(* integer.  A JSON or YAML file holds the document; a CSV file holds the  *)
(* header and the text of every cell.                                      *)
(***************************************************************************)
\* at most this many rows in the data of one save
MaxRows == 1

CellValues == {IntValue(1), StrValue(<<"a">>)}
DataRows == {[id |-> v] : v \in CellValues}
DataLists == UNION {[1..n -> DataRows] : n \in 0..MaxRows}

\* json.dump(data, f, indent=2)
JsonDump(data) == [format |-> "json", document |-> data]
\* json.load(f)
JsonLoad(content) == content.document

\* yaml.dump(data, f, default_flow_style=False)
YamlDump(data) == [format |-> "yaml", document |-> data]
\* yaml.safe_load(f)
YamlLoad(content) == content.document

\* csv.DictWriter(f, fieldnames=data[0].keys()): writeheader, writerows; an
\* empty list writes nothing
CsvDump(data) ==
    IF data = <<>>
    THEN [format |-> "csv", header |-> {}, lines |-> <<>>]
    ELSE [format |-> "csv", header |-> DOMAIN data[1],
          lines |-> [i \in 1..Len(data) |->
                        [k \in DOMAIN data[1] |-> Str(data[i][k])]]]

\* list(csv.DictReader(f)): every cell is a string
CsvLoad(content) ==
    [i \in 1..Len(content.lines) |->
        [k \in content.header |-> StrValue(content.lines[i][k])]]

\* what save_test_data writes for a format
Dump(data, file_format) ==
    CASE file_format = "json" -> JsonDump(data)
      [] file_format = "csv" -> CsvDump(data)
      [] OTHER -> YamlDump(data)

\* _load_file(filepath, file_format)
LoadFile(content, file_format) ==
    CASE file_format = "json" -> JsonLoad(content)
      [] file_format = "csv" -> CsvLoad(content)
      [] OTHER -> YamlLoad(content)

\* save_test_data(data, filename, file_format)
SaveTestData(data, filename, file_format) ==
    /\ files' = [files EXCEPT ![<<filename, file_format>>] =
                    Some(Dump(data, file_format))]
    /\ saved' = [saved EXCEPT ![filename] = Some(data)]
    /\ last' = [op |-> "save_test_data", filename |-> filename,
                file_format |-> file_format, status |-> "ok",
                result |-> NoneOpt]
    /\ UNCHANGED <<dbvars, cipher, api, run, clock, created, config>>

\* the extensions, in the order tried, whose file exists
Existing(filename) ==
    SelectSeq(Extensions, LAMBDA ext : files[<<filename, ext>>] # NoneOpt)

\* load_test_data(filename)
LoadTestData(filename) ==
    /\ last' =
          IF Existing(filename) = <<>>
          THEN [op |-> "load_test_data", filename |-> filename,
                file_format |-> None, status |-> "FileNotFoundError",
                result |-> NoneOpt]
          ELSE LET ext == Existing(filename)[1]
               IN  [op |-> "load_test_data", filename |-> filename,
                    file_format |-> ext, status |-> "ok",
                    result |-> Some(LoadFile(files[<<filename, ext>>][1], ext))]
    /\ UNCHANGED <<dbvars, cipher, api, run, clock, created, config, files, saved>>

NextTestData ==
    \/ \E data \in DataLists, filename \in DataNames, i \in 1..Len(Extensions) :
          SaveTestData(data, filename, Extensions[i])
    \/ \E filename \in DataNames : LoadTestData(filename)

\* one TestDataManager on a new directory and the calls made on it
SpecTestData == InitRunner /\ [][NextTestData]_vars

(***************************************************************************)
(* Claims about the database helper (checked under Spec)                   *)
(***************************************************************************)
IsDelete(stmt, table) == stmt.kind = "DELETE" /\ stmt.table = table

\* C1: in cleanup_test_data the DELETE on patients is issued only after the
\* DELETEs on all five child tables, and no child row exists for a patient whose
\* patients row this cleanup has removed, at any point of the cleanup
C1_ChildrenBeforeParent ==
    /\ \A i \in 1..Len(issued) :
          IsDelete(issued[i], "patients") =>
             \A t \in ChildTables : \E j \in 1..(i - 1) : IsDelete(issued[j], t)
    /\ \A t \in ChildTables :
          /\ tables[t] \cap cleanup.removed = {}
          /\ outcome.op = "cleanup_test_data" =>
                tables[t] \cap outcome.removed = {}

\* a cleanup in progress has just removed a patients row
C1_Witness ==
    /\ cleanup.step = "count"
    /\ cleanup_tables[cleanup.table] = "patients"
    /\ cleanup.removed # {}
    /\ Len(issued) = 11

\* C2: once cleanup_test_data(patient_ids) with a non-empty list has completed
\* without reporting a failure, none of the six tables holds a row whose
\* patient_id is in the list
C2_NoRowsLeft ==
    (/\ outcome.op = "cleanup_test_data"
     /\ outcome.status = "ok"
     /\ outcome.patient_ids # {})
    => \A t \in Tables : tables[t] \cap outcome.patient_ids = {}

\* a cleanup of both patients completed and removed their patients rows
C2_Witness ==
    /\ outcome.op = "cleanup_test_data"
    /\ outcome.status = "ok"
    /\ outcome.patient_ids = PatientIds
    /\ outcome.removed = PatientIds
    /\ Len(issued) = 12

\* the DELETE at position i of the statements sent was refused: rows it names
\* are still in its table, or it is the statement the cleanup stopped at
RefusedDelete(i) ==
    /\ issued[i].kind = "DELETE"
    /\ \/ tables[issued[i].table] \cap issued[i].ids # {}
       \/ /\ i = Len(issued)
          /\ Idle
          /\ outcome.status # "ok"

\* C15: when a DELETE of cleanup_test_data fails, the failure is reported and
\* nothing is sent after it: no later table gets a DELETE; if the failure is on
\* a child table no DELETE reached patients and no patients row was removed;
\* no table got a second DELETE, and the tables cleaned before stay clean
C15_FailedDeleteStopsCleanup ==
    outcome.op = "cleanup_test_data" =>
       \A i \in 1..Len(issued) :
          RefusedDelete(i) =>
             /\ i = Len(issued)
             /\ Idle
             /\ outcome.status \notin {"ok", "running"}
             /\ issued[i].table \in ChildTables =>
                   /\ \A j \in 1..Len(issued) : ~IsDelete(issued[j], "patients")
                   /\ outcome.removed = {}
             /\ \A j \in 1..(i - 1) :
                   /\ issued[j].table # issued[i].table
                   /\ issued[j].kind = "DELETE" =>
                         tables[issued[j].table] \cap issued[j].ids = {}
                   /\ issued[j].kind = IF j % 2 = 1 THEN "DELETE" ELSE "COUNT"
                   /\ issued[j].table = cleanup_tables[(j + 1) \div 2]
                   /\ issued[j].ids = outcome.patient_ids

\* the DELETE on appointments, the third table, failed: the cleanup stopped
\* after five statements with the appointments and patients rows in place
C15_Witness ==
    /\ outcome.op = "cleanup_test_data"
    /\ outcome.status = "AssertionError"
    /\ Len(issued) = 5
    /\ IsDelete(issued[5], "appointments")
    /\ tables["appointments"] \cap outcome.patient_ids # {}
    /\ tables["patients"] \cap outcome.patient_ids # {}

(***************************************************************************)
(* Claims about the helper's query operations (checked under SpecQueries)  *)
(***************************************************************************)
\* the operations of the helper that write their own parameterized statements
HelperOps == {"create_test_patient", "cleanup_test_data",
              "validate_patient_data_integrity", "verify_hipaa_audit_trail"}

\* C11 as claimed: every statement that create, cleanup, integrity validation
\* and audit-trail verification send is written with the placeholder of the
\* engine behind the alias ('?' for sqlite, '%s' for postgresql and mysql).
\* (One alias is registered at a time here: the statements on record went to it.)
C11_EnginePlaceholderUsed ==
    outcome.op \in HelperOps =>
       \A a \in DOMAIN connections : \A i \in 1..Len(issued) :
          issued[i].ph = DriverParamStyle(connections[a].type)

\* a call of query, create or non-empty cleanup on the alias
CallOn(alias) ==
    \/ \E patient_id \in PatientIds, ph \in {"?", "%s"}, dbOk \in BOOLEAN :
          ExecuteQuery(patient_id, ph, alias, dbOk)
    \/ \E patient_id \in PatientIds, dbOk \in BOOLEAN :
          CreateTestPatient(patient_id, alias, dbOk)
    \/ \E patient_ids \in (SUBSET PatientIds) \ {{}} :
          CleanupBegin(patient_ids, alias)

CreateCall ==
    \E patient_id \in PatientIds, alias \in Aliases, dbOk \in BOOLEAN :
       CreateTestPatient(patient_id, alias, dbOk)

C14_PayloadUnchanged ==
    last.op = "generate_jwt_token" => last.payload_after = last.payload

\* C3: verify_otp(otp, otp, timestamp) returns false for every timestamp that
\* lies more than 300 seconds before the current time
C3_ExpiredOtpRejected ==
    (/\ last.op = "verify_otp"
     /\ last.otp = last.expected_otp
     /\ last.timestamp # NoneOpt
     /\ last.now - last.timestamp[1] > OtpExpirySeconds)
    => last.result = FALSE

\* C4: with no timestamp given, verify_otp(otp, expected) is true exactly when
\* otp equals expected
C4_NoTimestampIsEquality ==
    (last.op = "verify_otp" /\ last.timestamp = NoneOpt)
    => (last.result <=> (last.otp = last.expected_otp))

\* verify_otp(o, o) without a timestamp returned true
C4_Witness ==
    /\ last.op = "verify_otp"
    /\ last.timestamp = NoneOpt
    /\ last.otp = "000000"
    /\ last.expected_otp = "000000"
    /\ last.result = TRUE

HasCharOf(password, charset) == \E i \in 1..Len(password) : password[i] \in charset

\* C5: generate_secure_password(n) returns exactly max(n, 8) characters, among
\* them a lowercase letter, an uppercase letter, a digit and one of !@#$%^&*
C5_PasswordLengthAndClasses ==
    last.op = "generate_secure_password" =>
       /\ Len(last.result) = IF last.length > 8 THEN last.length ELSE 8
       /\ HasCharOf(last.result, AsciiLowercase)
       /\ HasCharOf(last.result, AsciiUppercase)
       /\ HasCharOf(last.result, AsciiDigits)
       /\ HasCharOf(last.result, Symbols)

\* a password requested with length 5 came back with 8 characters, shuffled
C5_Witness ==
    /\ last.op = "generate_secure_password"
    /\ last.length = 5
    /\ Len(last.result) = 8
    /\ last.result[1] \notin AsciiLowercase

\* C6: decrypt_data(encrypt_data(x, k), k) returns x for every text x and every
\* key k that Fernet accepts, and also when no key is given to either call
C6_EncryptDecryptRoundTrip ==
    (/\ last.op = "decrypt_data"
     /\ last.key = last.enc_key
     /\ last.key \in ValidKeys \cup {None})
    => (last.raised = None /\ last.result = last.data)

\* a text with a two-byte character came back from a supplied key that is not
\* the instance key
C6_Witness ==
    /\ last.op = "decrypt_data"
    /\ cipher = "key1"
    /\ last.enc_key = "key2"
    /\ last.key = "key2"
    /\ last.data = <<233, 97>>
    /\ last.result = <<233, 97>>

\* C7: decrypt_data fails with an error, and returns no plaintext, when the key
\* it is called with (the instance key when none is supplied) differs from the
\* key the ciphertext was produced under
C7_WrongKeyFails ==
    last.op = "decrypt_data" =>
       /\ (KeyTruthy(last.key) /\ last.key # last.token.key) => last.raised # None
       /\ (~KeyTruthy(last.key) /\ cipher # last.token.key) => last.raised # None

\* a ciphertext made under key1 was refused under the valid key key2
C7_Witness ==
    /\ last.op = "decrypt_data"
    /\ last.token.key = "key1"
    /\ last.key = "key2"
    /\ last.raised = "InvalidToken"

\* C8 as claimed: verify_jwt_token(generate_jwt_token(payload, secret), secret)
\* returns every field of the original payload with its original value
C8_AllFieldsRecovered ==
    (/\ last.op = "verify_jwt_token"
     /\ last.secret = last.issue_secret
     /\ last.elapsed = 0)
    => /\ last.raised = None
       /\ \A f \in DOMAIN last.payload :
             f \in DOMAIN last.result /\ last.result[f] = last.payload[f]

\* C8 as amended: for a payload without aud and nbf fields, verification with
\* the issuing secret before the token expires returns every field other than
\* exp and iat with its original value; exp and iat are the ones
\* generate_jwt_token set (issue time + 1 hour, issue time)
C8_FieldsRecoveredExceptTimes ==
    (/\ last.op = "verify_jwt_token"
     /\ last.secret = last.issue_secret
     /\ last.elapsed < TokenLifetimeSeconds
     /\ "aud" \notin DOMAIN last.payload
     /\ "nbf" \notin DOMAIN last.payload)
    => /\ last.raised = None
       /\ \A f \in DOMAIN last.payload \ {"exp", "iat"} :
             f \in DOMAIN last.result /\ last.result[f] = last.payload[f]
       /\ last.result["exp"] = last.issued_at + TokenLifetimeSeconds
       /\ last.result["iat"] = last.issued_at

\* a payload with user_id and exp was verified: user_id came back, exp did not
C8_Witness ==
    /\ last.op = "verify_jwt_token"
    /\ last.secret = last.issue_secret
    /\ DOMAIN last.payload = {"user_id", "exp"}
    /\ last.raised = None
    /\ last.result["user_id"] = last.payload["user_id"]
    /\ last.result["exp"] # last.payload["exp"]

\* C9: verify_jwt_token fails with an error and returns no payload when the
\* secret differs from the one the token was issued with
C9_WrongSecretFails ==
    (last.op = "verify_jwt_token" /\ last.secret # last.issue_secret)
    => (last.raised # None /\ DOMAIN last.result = {})

\* a token issued under test_secret_key was refused under wrong_secret
C9_Witness ==
    /\ last.op = "verify_jwt_token"
    /\ last.issue_secret = "test_secret_key"
    /\ last.secret = "wrong_secret"
    /\ last.elapsed = 0
    /\ last.raised = "InvalidSignatureError"

\* the fields of the last mask_pii call that were masked
MaskedFields ==
    {f \in DOMAIN last.data :
        \E i \in DOMAIN FieldsToMask(last.fields_to_mask) :
           FieldsToMask(last.fields_to_mask)[i] = f}

\* C10: every field mask_pii masks keeps its length (that of its string form);
\* a value of at most 4 characters becomes all '*', a longer one becomes '*'
\* for all but its last 4 characters, which are kept
C10_MaskKeepsLastFour ==
    last.op = "mask_pii" =>
       \A f \in MaskedFields :
          LET value == Str(last.data[f])
              masked == last.result[f].s
              n == Len(value)
          IN  /\ last.result[f].type = "str"
              /\ Len(masked) = n
              /\ n <= 4 => \A i \in 1..n : masked[i] = "*"
              /\ n > 4 => /\ \A i \in 1..(n - 4) : masked[i] = "*"
                          /\ \A i \in (n - 3)..n : masked[i] = value[i]

\* a 5-character ssn was masked under the default field list
C10_Witness ==
    /\ last.op = "mask_pii"
    /\ last.fields_to_mask = NoneOpt
    /\ last.data["ssn"] = StrValue(<<"a", "b", "b", "a", "b">>)
    /\ last.result["ssn"] = StrValue(<<"*", "b", "b", "a", "b">>)

\* a tag: a "<" with a ">" somewhere after it
HasTag(s) == \E i \in 1..Len(s), j \in 1..Len(s) : i < j /\ s[i] = "<" /\ s[j] = ">"

\* C17 as claimed: the output of sanitize_input holds no HTML tag, none of the
\* denylisted SQL keywords as a whole word (in any letter case) and none of the
\* comment markers --, #, /* and */
C17_SanitizedOutputClean ==
    last.op = "sanitize_input" =>
       /\ ~HasTag(last.result)
       /\ \A i \in 1..Len(last.result) :
             /\ KeywordsAt(last.result, i) = {}
             /\ MarkersAt(last.result, i) = {}

C20_StatusMismatchFails ==
    api.outcome.op \in {"get_healthcare_api", "post_healthcare_api"} =>
       LET o == api.outcome
           expected == IF o.expected_status # NoneOpt THEN o.expected_status[1]
                       ELSE IF o.op = "get_healthcare_api" THEN 200 ELSE 201
       IN  /\ (o.response.kind = "error" \/ o.response.status # expected) =>
                 (o.status = "AssertionError" /\ o.result = NoneOpt)
           /\ o.status = "ok" =>
                 /\ o.response.kind = "response"
                 /\ o.response.status = expected
                 /\ o.result = JsonParse(o.response.body)
                 /\ o.result # NoneOpt

\* a POST with the default expected_status was answered 200 with a JSON body:
\* the call failed and returned nothing, and the response was kept
C20_Witness ==
    /\ api.outcome.op = "post_healthcare_api"
    /\ api.outcome.expected_status = NoneOpt
    /\ api.outcome.response.kind = "response"
    /\ api.outcome.response.status = 200
    /\ api.outcome.response.body = "{\"id\": 1}"
    /\ api.outcome.status = "AssertionError"
    /\ api.outcome.result = NoneOpt
    /\ api.last_response = api.outcome.response

(***************************************************************************)
(* Claims about the test runner (checked under SpecRunner)                 *)
(***************************************************************************)
\* C16 as claimed: run_tests.py exits with status 0 exactly when every suite
\* it ran for the selected test type succeeded, and with status 1 otherwise,
\* whatever happened in the Allure-report and cleanup steps
C16_ExitStatusFromSuites ==
    run.pc = "exited" =>
       run.exit = IF \A i \in 1..Len(run.results) : run.results[i]
                  THEN ExitSuccess ELSE ExitFailure

(***************************************************************************)
(* Claims about generate_otp (checked under SpecSecurity)                  *)
(***************************************************************************)
\* the result with the draw of position i replaced by r
OtpWithDraw(i, r) == GenerateOtp([last.draws EXCEPT ![i] = r])

C22_HeaderAgreesWithToken ==
    IF api.auth_token = ""
    THEN api.session.Authorization = None
    ELSE api.session.Authorization = Bearer(api.auth_token)

(***************************************************************************)
(* Claims about the connection bookkeeping (checked under SpecConnections) *)
(***************************************************************************)
\* a step of connect_to_healthcare_database
ConnectStep ==
    \E alias \in Aliases, db_type \in ConfigTypes, reachable \in BOOLEAN :
       Connect(alias, db_type, reachable)

C24_CurrentAliasRegistered ==
    current_connection = None \/ current_connection \in DOMAIN connections

\* the current alias was disconnected while another alias stays registered
C24_Witness ==
    /\ outcome.op = "disconnect"
    /\ current_connection = None
    /\ DOMAIN connections # {}

\* the driver connections the helper can still reach
Registered == {connections[a].connection : a \in DOMAIN connections}

\* C25: every connection that was opened and not closed is registered under
\* some alias (connecting again under an alias in use leaves no earlier
\* connection open and unreachable)
C25_OpenConnectionsRegistered == opened \subseteq Registered

C27_OtherPatientsUntouched ==
    [][/\ ~Idle =>
             \A t \in Tables :
                tables'[t] \ cleanup.patient_ids = tables[t] \ cleanup.patient_ids
       /\ \A alias \in Aliases :
             CleanupBegin({}, alias) =>
                /\ issued' = <<>>
                /\ tables' = tables
                /\ cleanup' = NoCleanup
                /\ outcome'.status = "ok"]_vars

\* a cleanup of PAT_1 ended and removed its row, and the rows of PAT_2 in
\* patients and in a child table are still there
C27_Witness ==
    /\ outcome.op = "cleanup_test_data"
    /\ outcome.status = "ok"
    /\ outcome.patient_ids = {"PAT_1"}
    /\ outcome.removed = {"PAT_1"}
    /\ "PAT_2" \in tables["patients"]
    /\ \E t \in ChildTables : "PAT_2" \in tables[t]

(***************************************************************************)
(* Claims about generated patient ids (checked under SpecIds)              *)
(***************************************************************************)
\* C28: two successful create_test_patient calls that supply no patient_id
\* return two distinct ids, whatever the time between the calls
C28_GeneratedIdsDistinct ==
    \A i \in 1..Len(created) : \A j \in 1..Len(created) :
       i # j => created[i] # created[j]

(***************************************************************************)
(* Claims about the configuration manager (checked under SpecConfig)       *)
(***************************************************************************)
\* C29: load_config keeps the value the configuration file gives a key unless
\* the environment variable of that key is set, and then the value of the
\* environment variable replaces it
C29_FileValueUnlessEnvSet ==
    last.op = "load_config" /\ last.file.kind = "dict" =>
        /\ last.status = "ok"
        /\ config # NoneOpt
        /\ \A key \in DOMAIN last.file.data :
              /\ key \in DOMAIN config[1]
              /\ IF key \in DOMAIN EnvVars(last.env)
                    /\ EnvName(key) \in DOMAIN last.env
                 THEN config[1][key] = EnvVars(last.env)[key][1]
                 ELSE config[1][key] = last.file.data[key]

(***************************************************************************)
(* Claims about the test-data manager (checked under SpecTestData)         *)
(***************************************************************************)
\* C30: after any sequence of save_test_data calls in one data directory,
\* load_test_data(name) returns the data of the most recent save made under
\* that name, whatever the formats of that save and of the earlier saves
C30_LoadReturnsLatestSave ==
    last.op = "load_test_data" /\ saved[last.filename] # NoneOpt =>
        /\ last.status = "ok"
        /\ last.result = saved[last.filename]

====
